---- MODULE Spec2Model ----
(***************************************************************************)
(* CategoricalHMM (ssm_jax/hmm/models/categorical_hmm.py): construction,   *)
(* e_step and m_step, over exact rational arithmetic.                      *)
(*                                                                         *)
(* A number is a pair <<n, d>> with d > 0 in lowest terms.  <<0, 0>> is    *)
(* the floating-point NaN (0/0).  <<1, 0>> marks a value whose exact       *)
(* numerator or denominator exceeds IntLimit; actions are disabled when    *)
(* their result would contain such a value.                                *)
(***************************************************************************)
EXTENDS Integers, Sequences, FiniteSets, TLC

----------------------------------------------------------------------------
(* Bounds of the model *)

IntLimit == 1000000000
MaxTime == 2
MaxBatch == 2
MaxCount == 1
MaxCalls == 2
MaxIters == 1
NumStates == 2
NumEmissions == 1
NumClasses == 2

----------------------------------------------------------------------------
(* Exact arithmetic *)

NaN == <<0, 0>>
Over == <<1, 0>>
Zero == <<0, 1>>
One == <<1, 1>>

Abs(a) == IF a < 0 THEN -a ELSE a

RECURSIVE GCD(_, _)
GCD(a, b) == IF b = 0 THEN a ELSE GCD(b, a % b)

IsNum(x) == x[2] > 0

Bad(x, y) == IF x = Over \/ y = Over THEN Over ELSE NaN

Fits(a, b) == a = 0 \/ b = 0 \/ Abs(a) <= IntLimit \div Abs(b)

Reduce(n, d) ==
    LET g == GCD(Abs(n), d)
    IN  IF Abs(n) > IntLimit \/ d > IntLimit THEN Over ELSE <<n \div g, d \div g>>

IntR(k) == <<k, 1>>

Frac(n, d) == Reduce(n, d)

RMul(x, y) ==
    IF ~IsNum(x) \/ ~IsNum(y) THEN Bad(x, y)
    ELSE LET g1 == GCD(Abs(x[1]), y[2])
             g2 == GCD(Abs(y[1]), x[2])
             a == x[1] \div g1
             b == y[1] \div g2
             c == x[2] \div g2
             e == y[2] \div g1
         IN  IF Fits(a, b) /\ Fits(c, e) THEN Reduce(a * b, c * e) ELSE Over

RAdd(x, y) ==
    IF ~IsNum(x) \/ ~IsNum(y) THEN Bad(x, y)
    ELSE LET g == GCD(x[2], y[2])
             p == y[2] \div g
             q == x[2] \div g
         IN  IF Fits(x[1], p) /\ Fits(y[1], q) /\ Fits(x[2], p)
             THEN Reduce(x[1] * p + y[1] * q, x[2] * p)
             ELSE Over

RNeg(x) == IF IsNum(x) THEN <<-x[1], x[2]>> ELSE x

RSub(x, y) == RAdd(x, RNeg(y))

RDiv(x, y) ==
    IF ~IsNum(x) \/ ~IsNum(y) THEN Bad(x, y)
    ELSE IF y[1] = 0 THEN NaN
    ELSE IF y[1] > 0 THEN RMul(x, <<y[2], y[1]>>)
    ELSE RMul(x, <<-y[2], -y[1]>>)

(* a/b <= c/d for a, c >= 0 and b, d > 0, by continued fractions *)
RECURSIVE FracLeq(_, _, _, _)
FracLeq(a, b, c, d) ==
    IF a \div b # c \div d THEN a \div b < c \div d
    ELSE IF a % b = 0 THEN TRUE
    ELSE IF c % d = 0 THEN FALSE
    ELSE FracLeq(d, c % d, b, a % b)

(* x <= y for non-negative numbers *)
RLeq(x, y) == IsNum(x) /\ IsNum(y) /\ FracLeq(x[1], x[2], y[1], y[2])

RPos(x) == IsNum(x) /\ x[1] > 0

(* x <= 1 *)
RLeq1(x) == IsNum(x) /\ x[1] <= x[2]

RECURSIVE RSum(_)
RSum(v) == IF Len(v) = 0 THEN Zero ELSE RAdd(RSum(SubSeq(v, 1, Len(v) - 1)), v[Len(v)])

RECURSIVE RProd(_)
RProd(v) == IF Len(v) = 0 THEN One ELSE RMul(RProd(SubSeq(v, 1, Len(v) - 1)), v[Len(v)])

----------------------------------------------------------------------------
(* Arrays are sequences (1-based); class labels are 0 .. num_classes - 1. *)

(* an array with every element evaluated *)
Arr(f) == f \o <<>>

VSum(v) == RSum(v)

VAdd(u, v) == Arr([i \in 1..Len(u) |-> RAdd(u[i], v[i])])

MAdd(a, b) == Arr([i \in 1..Len(a) |-> VAdd(a[i], b[i])])

TAdd(a, b) == Arr([i \in 1..Len(a) |-> MAdd(a[i], b[i])])

(* every entry of a vector, matrix, rank-3 array is strictly positive *)
VPos(v) == \A i \in 1..Len(v) : RPos(v[i])

MPos(m) == \A i \in 1..Len(m) : VPos(m[i])

TPos(t) == \A i \in 1..Len(t) : MPos(t[i])

(* no entry of a vector, matrix, rank-3 array is beyond IntLimit *)
VFits(v) == \A i \in 1..Len(v) : v[i] # Over

MFits(m) == \A i \in 1..Len(m) : VFits(m[i])

TFits(t) == \A i \in 1..Len(t) : MFits(t[i])

(* Python None: a pytree without leaves.  Batches are never empty here, *)
(* so the empty sequence stands for None.                               *)
None == <<>>

IsNone(x) == Len(x) = 0

(* shape of a rank-3 array *)
Shape3(x) == <<Len(x), Len(x[1]), Len(x[1][1])>>

----------------------------------------------------------------------------
(* Library functions used by the class *)

(* jax.nn.one_hot(x, num_classes): 1 at position x, all zero when x is *)
(* outside 0 .. num_classes - 1.                                        *)
one_hot(x, num_classes) == Arr([i \in 1..num_classes |-> IF x = i - 1 THEN One ELSE Zero])

(* the mode with the denominator sum(concentration) - 1 *)
DirichletModeMinusOne(concentration) ==
    LET k == Len(concentration)
        total == VSum(concentration)
    IN  IF \A i \in 1..k : ~RLeq1(concentration[i])
        THEN Arr([i \in 1..k |-> RDiv(RSub(concentration[i], One), RSub(total, One))])
        ELSE Arr([i \in 1..k |-> NaN])

(* tfd.Dirichlet(concentration).mode() on the last axis:                  *)
(* (concentration - 1) / (sum(concentration) - K), NaN unless every entry *)
(* of the concentration exceeds 1.                                        *)
DirichletMode(concentration) ==
    LET k == Len(concentration)
        total == VSum(concentration)
    IN  IF \A i \in 1..k : ~RLeq1(concentration[i])
        THEN Arr([i \in 1..k |-> RDiv(RSub(concentration[i], One), RSub(total, IntR(k)))])
        ELSE Arr([i \in 1..k |-> NaN])

(* the last record of the batch instead of the sum *)
SumAxis0VecLast(b) == b[Len(b)]

(* jnp.sum(x, axis=0) of a batch of scalars, vectors, matrices, rank-3 arrays *)
RECURSIVE SumAxis0Vec(_)
SumAxis0Vec(b) ==
    IF Len(b) = 1 THEN b[1] ELSE VAdd(SumAxis0Vec(SubSeq(b, 1, Len(b) - 1)), b[Len(b)])

RECURSIVE SumAxis0Mat(_)
SumAxis0Mat(b) ==
    IF Len(b) = 1 THEN b[1] ELSE MAdd(SumAxis0Mat(SubSeq(b, 1, Len(b) - 1)), b[Len(b)])

RECURSIVE SumAxis0Ten(_)
SumAxis0Ten(b) ==
    IF Len(b) = 1 THEN b[1] ELSE TAdd(SumAxis0Ten(SubSeq(b, 1, Len(b) - 1)), b[Len(b)])

----------------------------------------------------------------------------
(* Pseudo-counts of m_step *)

InitialConcentration == Frac(10001, 10000)

(* the emission pseudo-count used for the transition rows *)
TransitionConcentrationLarge == Frac(11, 10)

TransitionConcentration == Frac(10001, 10000)

(* a pseudo-count of exactly 1 *)
EmissionConcentrationOne == One

EmissionConcentration == Frac(11, 10)

----------------------------------------------------------------------------
(* Base class and inference routines *)

(* BaseHMM.num_states: the length of the initial distribution *)
num_states(initial) == Len(initial)

(* CategoricalHMM.num_emissions / num_classes *)
num_emissions(emission) == Shape3(emission)[2]

num_classes(emission) == Shape3(emission)[3]

(* emission_distribution(state).prob(x): independent categoricals over the *)
(* channels, parameterised by emission_probs[state]                        *)
EmissionProb(emission, state, x) ==
    RProd(Arr([d \in 1..Len(x) |-> emission[state][d][x[d] + 1]]))

(* BaseHMM._conditional_logliks(emissions), as likelihoods: time x states *)
ConditionalLiks(initial, emission, emissions) ==
    Arr([t \in 1..Len(emissions) |->
        Arr([k \in 1..num_states(initial) |-> EmissionProb(emission, k, emissions[t])])])

DivideAll(v, z) == Arr([i \in 1..Len(v) |-> RDiv(v[i], z)])

Normalize(v) == DivideAll(v, VSum(v))

(* hmm_smoother: forward filtering with per-step normalisation, backward *)
(* messages, smoothed marginals; the likelihood is the product of the    *)
(* normalising constants.                                                *)
Predict(probs, A) ==
    Arr([j \in 1..Len(probs) |-> RSum(Arr([i \in 1..Len(probs) |-> RMul(probs[i], A[i][j])]))])

Condition(predicted, lik) == Arr([k \in 1..Len(predicted) |-> RMul(predicted[k], lik[k])])

FilterStep(joint, lik_so_far) ==
    [probs |-> Normalize(joint), lik |-> RMul(lik_so_far, VSum(joint))]

FilterNext(previous, A, lik) ==
    FilterStep(Condition(Predict(previous.probs, A), lik), previous.lik)

RECURSIVE Filtered(_, _, _, _)
Filtered(initial, A, liks, t) ==
    IF t = 1 THEN FilterStep(Condition(initial, liks[1]), One)
    ELSE FilterNext(Filtered(initial, A, liks, t - 1), A, liks[t])

BackwardStep(A, lik, b) ==
    Arr([i \in 1..Len(A) |->
        RSum(Arr([j \in 1..Len(A) |-> RMul(A[i][j], RMul(lik[j], b[j]))]))])

RECURSIVE Backward(_, _, _)
Backward(A, liks, t) ==
    IF t = Len(liks) THEN Arr([k \in 1..Len(A) |-> One])
    ELSE BackwardStep(A, liks[t + 1], Backward(A, liks, t + 1))

Posterior(filt, beta, liks) ==
    [marginal_loglik |-> filt[Len(liks)].lik,
     filtered_probs |-> Arr([t \in 1..Len(liks) |-> filt[t].probs]),
     backward_msgs |-> beta,
     liks |-> liks,
     smoothed_probs |->
        Arr([t \in 1..Len(liks) |-> Normalize(Condition(filt[t].probs, beta[t]))])]

hmm_smoother(initial, A, liks) ==
    Posterior(Arr([t \in 1..Len(liks) |-> Filtered(initial, A, liks, t)]),
              Arr([t \in 1..Len(liks) |-> Backward(A, liks, t)]), liks)

(* compute_transition_probs: pairwise posteriors of consecutive steps, *)
(* summed over time; all zero for a sequence of length 1               *)
DivideMat(w, z) == Arr([i \in 1..Len(w) |-> DivideAll(w[i], z)])

NormalizeMat(w) == DivideMat(w, RSum(Arr([i \in 1..Len(w) |-> VSum(w[i])])))

PairwiseAt(A, posterior, t) ==
    NormalizeMat(Arr([i \in 1..Len(A) |-> Arr([j \in 1..Len(A) |->
        RMul(posterior.filtered_probs[t][i],
             RMul(A[i][j], RMul(posterior.liks[t + 1][j],
                                posterior.backward_msgs[t + 1][j])))])]))

RECURSIVE SumPairwise(_, _, _)
SumPairwise(A, posterior, t) ==
    IF t = 0 THEN Arr([i \in 1..Len(A) |-> Arr([j \in 1..Len(A) |-> Zero])])
    ELSE MAdd(SumPairwise(A, posterior, t - 1), PairwiseAt(A, posterior, t))

compute_transition_probs(A, posterior) ==
    SumPairwise(A, posterior, Len(posterior.smoothed_probs) - 1)

----------------------------------------------------------------------------
(* CategoricalHMM *)

(* a rank check that accepts every rank from 3 up *)
RankCheckAtLeast(ndim) == ndim >= 3

(* line 39: assert emission_probs.ndim == 3 *)
RankCheck(ndim) == ndim = 3

(* __init__: BaseHMM.__init__ stores the two base parameters, then the rank *)
(* check, then the emission parameter.  An argument is [ndim, value].       *)
ConstructOutcome(initial_probabilities, transition, emission_arg) ==
    IF RankCheck(emission_arg.ndim)
    THEN [ok |-> TRUE, initial_probs |-> initial_probabilities,
          transition_matrix |-> transition, emission_probs |-> emission_arg.value]
    ELSE [ok |-> FALSE, initial_probs |-> initial_probabilities,
          transition_matrix |-> transition, emission_probs |-> None]

(* the contraction without the first time step *)
ExpectedCountsSkipFirst(smoothed_probs, emissions, C) ==
    LET T == Len(emissions)
        K == Len(smoothed_probs[1])
        D == Len(emissions[1])
    IN  Arr([k \in 1..K |-> Arr([d \in 1..D |-> Arr([i \in 1..C |->
            RSum(Arr([t \in 1..(T - 1) |->
                RMul(smoothed_probs[t + 1][k], one_hot(emissions[t + 1][d], C)[i])]))])])])

(* line 95: jnp.einsum("tk, tdi->kdi", smoothed_probs, one_hot(emissions, C)) *)
ExpectedCounts(smoothed_probs, emissions, C) ==
    LET T == Len(emissions)
        K == Len(smoothed_probs[1])
        D == Len(emissions[1])
    IN  Arr([k \in 1..K |-> Arr([d \in 1..D |-> Arr([i \in 1..C |->
            RSum(Arr([t \in 1..T |->
                RMul(smoothed_probs[t][k], one_hot(emissions[t][d], C)[i])]))])])])

(* lines 90-104.  marginal_loglik holds the likelihood itself, the *)
(* exponential of the code's value.                                 *)
PackStats(posterior, transition, emissions, C) ==
    [marginal_loglik |-> posterior.marginal_loglik,
     initial_probs |-> posterior.smoothed_probs[1],
     trans_probs |-> compute_transition_probs(transition, posterior),
     sum_x |-> ExpectedCounts(posterior.smoothed_probs, emissions, C)]

(* lines 84-104 *)
SingleEStep(initial, transition, emission, emissions) ==
    PackStats(hmm_smoother(initial, transition,
                  ConditionalLiks(initial, emission, emissions)),
              transition, emissions, num_classes(emission))

(* line 107: vmap over the batch gives one record of batched arrays *)
Stack(per) ==
    [marginal_loglik |-> Arr([b \in 1..Len(per) |-> per[b].marginal_loglik]),
     initial_probs |-> Arr([b \in 1..Len(per) |-> per[b].initial_probs]),
     trans_probs |-> Arr([b \in 1..Len(per) |-> per[b].trans_probs]),
     sum_x |-> Arr([b \in 1..Len(per) |-> per[b].sum_x])]

EStepResult(initial, transition, emission, batch_emissions) ==
    Stack(Arr([b \in 1..Len(batch_emissions) |->
        SingleEStep(initial, transition, emission, batch_emissions[b])]))

(* line 111: tree_map(partial(jnp.sum, axis=0), batch_posteriors); a None *)
(* field has no leaves and stays None.  Summed log-likelihoods are the    *)
(* product of the likelihoods.                                            *)
SumStats(batch_posteriors) ==
    [marginal_loglik |-> IF IsNone(batch_posteriors.marginal_loglik) THEN None
                         ELSE RProd(batch_posteriors.marginal_loglik),
     initial_probs |-> IF IsNone(batch_posteriors.initial_probs) THEN None
                       ELSE SumAxis0Vec(batch_posteriors.initial_probs),
     trans_probs |-> IF IsNone(batch_posteriors.trans_probs) THEN None
                     ELSE SumAxis0Mat(batch_posteriors.trans_probs),
     sum_x |-> IF IsNone(batch_posteriors.sum_x) THEN None
               ELSE SumAxis0Ten(batch_posteriors.sum_x)]

AddScalar(c, v) == Arr([i \in 1..Len(v) |-> RAdd(c, v[i])])

(* line 113 *)
NewInitial(stats) == DirichletMode(AddScalar(InitialConcentration, stats.initial_probs))

(* line 114 *)
NewTransition(stats) ==
    Arr([i \in 1..Len(stats.trans_probs) |->
        DirichletMode(AddScalar(TransitionConcentration, stats.trans_probs[i]))])

(* line 115 *)
NewEmission(stats) ==
    Arr([k \in 1..Len(stats.sum_x) |-> Arr([d \in 1..Len(stats.sum_x[k]) |->
        DirichletMode(AddScalar(EmissionConcentration, stats.sum_x[k][d]))])])

(* lines 113-115: three assignments in order; adding a pseudo-count to *)
(* None raises, and the assignments already made stay.                 *)
Assignments(initial, transition, emission, stats, new_initial, new_transition, new_emission) ==
    IF IsNone(stats.initial_probs)
    THEN [ok |-> FALSE, initial_probs |-> initial,
          transition_matrix |-> transition, emission_probs |-> emission]
    ELSE IF IsNone(stats.trans_probs)
    THEN [ok |-> FALSE, initial_probs |-> new_initial,
          transition_matrix |-> transition, emission_probs |-> emission]
    ELSE IF IsNone(stats.sum_x)
    THEN [ok |-> FALSE, initial_probs |-> new_initial,
          transition_matrix |-> new_transition, emission_probs |-> emission]
    ELSE [ok |-> TRUE, initial_probs |-> new_initial,
          transition_matrix |-> new_transition, emission_probs |-> new_emission]

MStepOnStats(initial, transition, emission, stats) ==
    Assignments(initial, transition, emission, stats,
                NewInitial(stats), NewTransition(stats), NewEmission(stats))

(* lines 109-115 *)
MStepOutcome(initial, transition, emission, batch_posteriors) ==
    MStepOnStats(initial, transition, emission, SumStats(batch_posteriors))

----------------------------------------------------------------------------
(* Inputs *)

UniformVec(n) == Arr([i \in 1..n |-> Frac(1, n)])

RampVec(n) == Arr([i \in 1..n |-> Frac(2 * i, n * (n + 1))])

PointVec(n) == Arr([i \in 1..n |-> IF i = 1 THEN One ELSE Zero])

UniformRows(n) == Arr([i \in 1..n |-> UniformVec(n)])

StickyRows(n) == Arr([i \in 1..n |-> Arr([j \in 1..n |-> IF i = j THEN Frac(2, n + 1) ELSE Frac(1, n + 1)])])

UniformEmission(K, D, C) == Arr([k \in 1..K |-> Arr([d \in 1..D |-> UniformVec(C)])])

SkewEmission(K, D, C) ==
    Arr([k \in 1..K |-> Arr([d \in 1..D |-> Arr([i \in 1..C |->
        Frac(2 * (((k + d + i) % C) + 1), C * (C + 1))])])])

(* every state emits class 0 with the same high probability *)
PeakedEmission(K, D, C) ==
    Arr([k \in 1..K |-> Arr([d \in 1..D |-> Arr([i \in 1..C |->
        IF i = 1 THEN Frac(C + 7, 2 * C + 6) ELSE Frac(1, 2 * C + 6)])])])

(* emission_probs of rank 3 with one row more than num_states *)
MismatchedEmissions ==
    {SkewEmission(NumStates + 1, NumEmissions, NumClasses),
     PeakedEmission(NumStates + 1, NumEmissions, NumClasses)}

ModelArgs(i, a, e) ==
    [initial_probabilities |-> i, transition_matrix |-> a,
     emission_probs |-> [ndim |-> 3, value |-> e]]

GoodArgs ==
    {ModelArgs(UniformVec(NumStates), UniformRows(NumStates),
               PeakedEmission(NumStates, NumEmissions, NumClasses)),
     ModelArgs(UniformVec(NumStates), StickyRows(NumStates),
               SkewEmission(NumStates, NumEmissions, NumClasses)),
     ModelArgs(RampVec(NumStates), StickyRows(NumStates),
               SkewEmission(NumStates, NumEmissions, NumClasses)),
     ModelArgs(RampVec(NumStates), UniformRows(NumStates),
               UniformEmission(NumStates, NumEmissions, NumClasses)),
     ModelArgs(PointVec(NumStates), UniformRows(NumStates),
               SkewEmission(NumStates, NumEmissions, NumClasses)),
     ModelArgs(PointVec(NumStates), StickyRows(NumStates),
               PeakedEmission(NumStates, NumEmissions, NumClasses))}

MismatchedArgs ==
    {ModelArgs(RampVec(NumStates), StickyRows(NumStates), e) : e \in MismatchedEmissions}

(* emission_probs of rank 1, 2 and 4 *)
WrongRankEmission(ndim) ==
    LET e == SkewEmission(NumStates, NumEmissions, NumClasses)
    IN  [ndim |-> ndim,
         value |-> IF ndim = 1 THEN e[1][1] ELSE IF ndim = 2 THEN e[1] ELSE <<e>>]

WrongRanks == {1, 2, 4}

(* A batch of B sequences of length T: a pattern below NumClasses repeats *)
(* that class everywhere, pattern NumClasses varies the class with the   *)
(* sequence, the time step and the channel.                              *)
Batch(B, T, p) ==
    Arr([b \in 1..B |-> Arr([t \in 1..T |-> Arr([d \in 1..NumEmissions |->
        IF p < NumClasses THEN p ELSE (b + t + d) % NumClasses])])])

Batches ==
    {Batch(B, T, p) : B \in {1, MaxBatch}, T \in {1, MaxTime},
                      p \in {0, NumClasses - 1, NumClasses}}

ConstStats(c, K, D, C) ==
    [marginal_loglik |-> Arr([b \in 1..Len(c) |-> One]),
     initial_probs |-> Arr([b \in 1..Len(c) |-> Arr([k \in 1..K |-> IntR(c[b])])]),
     trans_probs |-> Arr([b \in 1..Len(c) |-> Arr([i \in 1..K |-> Arr([j \in 1..K |-> IntR(c[b])])])]),
     sum_x |-> Arr([b \in 1..Len(c) |-> Arr([k \in 1..K |-> Arr([d \in 1..D |-> Arr([i \in 1..C |->
                 IntR(c[b])])])])])]

(* per-record counts of a batch: c in the first record, 0 in the others *)
CountBatches ==
    {Arr([b \in 1..MaxBatch |-> IF b = 1 THEN c ELSE 0]) : c \in 0..MaxCount}

NoStats ==
    [marginal_loglik |-> None, initial_probs |-> None, trans_probs |-> None, sum_x |-> None]

WithNone(bp, field) ==
    IF field = "initial_probs" THEN [bp EXCEPT !.initial_probs = None]
    ELSE IF field = "trans_probs" THEN [bp EXCEPT !.trans_probs = None]
    ELSE IF field = "sum_x" THEN [bp EXCEPT !.sum_x = None]
    ELSE bp

StatFields == {"all", "initial_probs", "trans_probs", "sum_x"}

----------------------------------------------------------------------------
(* State *)

VARIABLES
    constructed,        \* __init__ returned an object
    initial_probs,      \* self._initial_probs.value
    transition_matrix,  \* self._transition_matrix.value
    emission_probs,     \* self._emission_probs.value
    batch_posteriors,   \* what the last e_step returned to the caller
    last,               \* the last call and whether it returned
    c_arg,              \* rank and first dimension of the emission_probs given to __init__
    e_arg,              \* batch_emissions of the last e_step
    m_arg,              \* batch_posteriors of the last m_step
    pre,                \* the parameters before the last m_step
    raised,             \* some call on the object has raised
    m_done,             \* some m_step has returned
    calls,              \* number of e_step / m_step calls
    data,               \* the fit loop's batch
    liks,               \* the fit loop's total likelihood per iteration
    pc                  \* the fit loop's position

vars ==
    <<constructed, initial_probs, transition_matrix, emission_probs, batch_posteriors,
      last, c_arg, e_arg, m_arg, pre, raised, m_done, calls, data, liks, pc>>

Params == [initial_probs |-> initial_probs, transition_matrix |-> transition_matrix,
           emission_probs |-> emission_probs]

NoParams == [initial_probs |-> None, transition_matrix |-> None, emission_probs |-> None]

ParamsFit(o) ==
    /\ VFits(o.initial_probs)
    /\ MFits(o.transition_matrix)
    /\ TFits(o.emission_probs)

StatsFit(s) ==
    /\ VFits(s.marginal_loglik)
    /\ MFits(s.initial_probs)
    /\ TFits(s.trans_probs)
    /\ \A b \in 1..Len(s.sum_x) : TFits(s.sum_x[b])

Init ==
    /\ constructed = FALSE
    /\ initial_probs = None
    /\ transition_matrix = None
    /\ emission_probs = None
    /\ batch_posteriors = NoStats
    /\ last = [op |-> "none", ok |-> TRUE]
    /\ c_arg = [ndim |-> 0, states |-> 0]
    /\ e_arg = None
    /\ m_arg = NoStats
    /\ pre = NoParams
    /\ raised = FALSE
    /\ m_done = FALSE
    /\ calls = 0
    /\ data = None
    /\ liks = <<>>
    /\ pc = "api"

ConstructWith(i, a, e) ==
    \E o \in {ConstructOutcome(i, a, e)} :
        /\ last.op = "none"
        /\ constructed' = o.ok
        /\ initial_probs' = o.initial_probs
        /\ transition_matrix' = o.transition_matrix
        /\ emission_probs' = o.emission_probs
        /\ last' = [op |-> "__init__", ok |-> o.ok]
        /\ c_arg' = [ndim |-> e.ndim, states |-> Len(e.value)]
        /\ UNCHANGED <<batch_posteriors, e_arg, m_arg, pre, raised, m_done, calls,
                       data, liks, pc>>

Construct ==
    \/ \E x \in GoodArgs \cup MismatchedArgs :
          ConstructWith(x.initial_probabilities, x.transition_matrix, x.emission_probs)
    \/ \E n \in WrongRanks :
          ConstructWith(RampVec(NumStates), StickyRows(NumStates), WrongRankEmission(n))

EStep ==
    \E batch_emissions \in Batches :
        /\ constructed
        /\ pc = "api"
        /\ calls < MaxCalls
        /\ \E r \in {EStepResult(initial_probs, transition_matrix, emission_probs,
                                  batch_emissions)} :
              /\ StatsFit(r)
              /\ batch_posteriors' = r
        /\ last' = [op |-> "e_step", ok |-> TRUE]
        /\ e_arg' = batch_emissions
        /\ calls' = calls + 1
        /\ UNCHANGED <<constructed, initial_probs, transition_matrix, emission_probs,
                       c_arg, m_arg, pre, raised, m_done, data, liks, pc>>

MStepWith(arg) ==
    \E o \in {MStepOutcome(initial_probs, transition_matrix, emission_probs, arg)} :
        /\ ParamsFit(o)
        /\ initial_probs' = o.initial_probs
        /\ transition_matrix' = o.transition_matrix
        /\ emission_probs' = o.emission_probs
        /\ last' = [op |-> "m_step", ok |-> o.ok]
        /\ raised' = (raised \/ ~o.ok)
        /\ m_done' = (m_done \/ o.ok)
        /\ m_arg' = arg
        /\ pre' = Params

MStep ==
    /\ constructed
    /\ pc = "api"
    /\ calls < MaxCalls
    /\ \/ \E f \in StatFields : MStepWith(WithNone(batch_posteriors, f))
       \/ \E c \in CountBatches :
             MStepWith(ConstStats(c, num_states(initial_probs),
                                  num_emissions(emission_probs), num_classes(emission_probs)))
    /\ calls' = calls + 1
    /\ UNCHANGED <<constructed, batch_posteriors, c_arg, e_arg, data, liks, pc>>

Next == Construct \/ EStep \/ MStep

Spec == Init /\ [][Next]_vars

----------------------------------------------------------------------------
(* The fit loop: e_step then m_step, repeatedly, on one batch *)

FitInit ==
    \E x \in GoodArgs : \E d \in Batches :
        \E o \in {ConstructOutcome(x.initial_probabilities, x.transition_matrix,
                                   x.emission_probs)} :
            /\ constructed = o.ok
            /\ initial_probs = o.initial_probs
            /\ transition_matrix = o.transition_matrix
            /\ emission_probs = o.emission_probs
            /\ batch_posteriors = NoStats
            /\ last = [op |-> "__init__", ok |-> o.ok]
            /\ c_arg = [ndim |-> x.emission_probs.ndim, states |-> Len(x.emission_probs.value)]
            /\ e_arg = None
            /\ m_arg = NoStats
            /\ pre = NoParams
            /\ raised = FALSE
            /\ m_done = FALSE
            /\ calls = 0
            /\ data = d
            /\ liks = <<>>
            /\ pc = "e_step"

FitEStep ==
    \E r \in {EStepResult(initial_probs, transition_matrix, emission_probs, data)} :
        /\ pc = "e_step"
        /\ Len(liks) <= MaxIters
        /\ StatsFit(r)
        /\ RProd(r.marginal_loglik) # Over
        /\ batch_posteriors' = r
        /\ liks' = Append(liks, RProd(r.marginal_loglik))
        /\ last' = [op |-> "e_step", ok |-> TRUE]
        /\ e_arg' = data
        /\ calls' = calls + 1
        /\ pc' = "m_step"
        /\ UNCHANGED <<constructed, initial_probs, transition_matrix, emission_probs,
                       c_arg, m_arg, pre, raised, m_done, data>>

FitMStep ==
    /\ pc = "m_step"
    /\ Len(liks) <= MaxIters
    /\ MStepWith(batch_posteriors)
    /\ calls' = calls + 1
    /\ pc' = "e_step"
    /\ UNCHANGED <<constructed, batch_posteriors, c_arg, e_arg, data, liks>>

FitNext == FitEStep \/ FitMStep

SpecFit == FitInit /\ [][FitNext]_vars

----------------------------------------------------------------------------
(* Properties *)

LastReturned(op) == last.op = op /\ last.ok

SumsToOne(v) == VSum(v) = One

(* the elementwise sum of a batch of records, entry by entry, as a batch of one *)
ManualSum(bp) ==
    LET B == Len(bp.initial_probs)
        K == Len(bp.initial_probs[1])
        D == Len(bp.sum_x[1][1])
        C == Len(bp.sum_x[1][1][1])
    IN  [marginal_loglik |-> <<RProd(bp.marginal_loglik)>>,
         initial_probs |-> <<[k \in 1..K |-> RSum([b \in 1..B |-> bp.initial_probs[b][k]])]>>,
         trans_probs |-> <<[i \in 1..K |-> [j \in 1..K |->
                            RSum([b \in 1..B |-> bp.trans_probs[b][i][j]])]]>>,
         sum_x |-> <<[k \in 1..K |-> [d \in 1..D |-> [i \in 1..C |->
                            RSum([b \in 1..B |-> bp.sum_x[b][k][d][i]])]]]>>]

Permuted(bp, p) ==
    LET B == Len(bp.initial_probs)
    IN  [marginal_loglik |-> [b \in 1..B |-> bp.marginal_loglik[p[b]]],
         initial_probs |-> [b \in 1..B |-> bp.initial_probs[p[b]]],
         trans_probs |-> [b \in 1..B |-> bp.trans_probs[p[b]]],
         sum_x |-> [b \in 1..B |-> bp.sum_x[p[b]]]]

ParamsOf(o) == [initial_probs |-> o.initial_probs, transition_matrix |-> o.transition_matrix,
                emission_probs |-> o.emission_probs]

MStepParams(bp) ==
    ParamsOf(MStepOutcome(pre.initial_probs, pre.transition_matrix, pre.emission_probs, bp))

(* (s_i + c) / (sum_j s_j + c * K) *)
SmoothedShare(s, c) ==
    [i \in 1..Len(s) |-> RDiv(RAdd(s[i], c), RAdd(VSum(s), RMul(c, IntR(Len(s)))))]

(* C1: an m_step that raises leaves all three parameters at their pre-call *)
(* values; one that returns has replaced them.                             *)
C1_MStepAllOrNothing ==
    (last.op = "m_step" /\ ~last.ok) => Params = pre

(* C2: the initial distribution, every row of the transition matrix and   *)
(* every (state, channel) slice of emission_probs sums to 1 in every state *)
(* of a constructed model.                                                 *)
C2_Stochastic ==
    constructed =>
        /\ SumsToOne(initial_probs)
        /\ \A i \in 1..Len(transition_matrix) : SumsToOne(transition_matrix[i])
        /\ \A k \in 1..Len(emission_probs) : \A d \in 1..Len(emission_probs[k]) :
              SumsToOne(emission_probs[k][d])

C2_Witness ==
    /\ LastReturned("m_step")
    /\ ~IsNone(e_arg)
    /\ m_arg = batch_posteriors
    /\ C2_Stochastic

(* C3: once an m_step has returned, every entry of the three parameters is *)
(* strictly positive.                                                      *)
C3_NoZeroProbability ==
    m_done =>
        /\ VPos(initial_probs)
        /\ MPos(transition_matrix)
        /\ TPos(emission_probs)

C3_Witness ==
    /\ LastReturned("m_step")
    /\ \E i \in 1..Len(ManualSum(m_arg).initial_probs[1]) :
          ManualSum(m_arg).initial_probs[1][i] = Zero
    /\ \E i \in 1..NumStates, j \in 1..NumStates :
          ManualSum(m_arg).trans_probs[1][i][j] = Zero
    /\ \E k \in 1..NumStates, d \in 1..NumEmissions, i \in 1..NumClasses :
          ManualSum(m_arg).sum_x[1][k][d][i] = Zero
    /\ C3_NoZeroProbability

(* C4: in the fit loop the total likelihood of the batch never decreases *)
(* from one e_step to the next.                                          *)
C4_LikelihoodNonDecreasing ==
    \A n \in 1..(Len(liks) - 1) : RLeq(liks[n], liks[n + 1])

(* C6: after e_step, for every sequence and channel the expected counts *)
(* summed over states and classes equal the sequence length.            *)
C6_CountsSumToLength ==
    LastReturned("e_step") =>
        \A b \in 1..Len(e_arg) : \A d \in 1..NumEmissions :
            RSum([k \in 1..Len(batch_posteriors.sum_x[b]) |->
                    VSum(batch_posteriors.sum_x[b][k][d])]) = IntR(Len(e_arg[b]))

C6_Witness ==
    /\ LastReturned("e_step")
    /\ Len(e_arg) = MaxBatch
    /\ Len(e_arg[1]) = MaxTime
    /\ m_done
    /\ C6_CountsSumToLength

(* C7: the parameters after m_step on a batch equal those of m_step on the *)
(* single record that is the elementwise sum of the batch, and those of    *)
(* m_step on every permutation of the batch.                               *)
C7_BatchReductionIsSum ==
    LastReturned("m_step") =>
        /\ Params = MStepParams(ManualSum(m_arg))
        /\ \A p \in Permutations(1..Len(m_arg.initial_probs)) :
              Params = MStepParams(Permuted(m_arg, p))

C7_Witness ==
    /\ LastReturned("m_step")
    /\ m_arg = batch_posteriors
    /\ Len(e_arg) = 2
    /\ e_arg[1] = e_arg[2]
    /\ C7_BatchReductionIsSum

(* C8: a model built with an emission_probs whose state dimension is not *)
(* num_states has raised by the time an e_step and an m_step have been   *)
(* called on it.                                                         *)
C8_MismatchRaises ==
    (/\ constructed
     /\ c_arg.states # num_states(IF IsNone(pre.initial_probs) THEN initial_probs
                                  ELSE pre.initial_probs)
     /\ ~IsNone(e_arg)
     /\ last.op = "m_step") => raised

(* C9: construction returns an object exactly when emission_probs has rank *)
(* 3, and a failed construction leaves no emission parameter.              *)
C9_RankChecked ==
    last.op # "none" =>
        /\ constructed <=> (c_arg.ndim = 3)
        /\ ~constructed => IsNone(emission_probs)

C9_Witness ==
    /\ last.op = "__init__"
    /\ c_arg.ndim = 4
    /\ ~constructed
    /\ IsNone(emission_probs)

(* C10: after m_step each parameter slice is (s_i + c) / (sum_j s_j + c K) *)
(* of the summed statistic s, with c = 0.0001 for the initial distribution *)
(* and the transition rows and c = 0.1 for the emission slices, and the    *)
(* denominator is positive.                                                *)
C10_DirichletModeForm ==
    LastReturned("m_step") =>
        LET s == ManualSum(m_arg)
            K == Len(s.initial_probs[1])
        IN  /\ initial_probs = SmoothedShare(s.initial_probs[1], Frac(1, 10000))
            /\ RPos(RAdd(VSum(s.initial_probs[1]), RMul(Frac(1, 10000), IntR(K))))
            /\ \A i \in 1..K :
                  /\ transition_matrix[i] = SmoothedShare(s.trans_probs[1][i], Frac(1, 10000))
                  /\ RPos(RAdd(VSum(s.trans_probs[1][i]), RMul(Frac(1, 10000), IntR(K))))
            /\ \A k \in 1..K : \A d \in 1..Len(s.sum_x[1][k]) :
                  /\ emission_probs[k][d] = SmoothedShare(s.sum_x[1][k][d], Frac(1, 10))
                  /\ RPos(RAdd(VSum(s.sum_x[1][k][d]),
                               RMul(Frac(1, 10), IntR(Len(s.sum_x[1][k][d])))))

C10_Witness ==
    /\ LastReturned("m_step")
    /\ m_arg = batch_posteriors
    /\ Len(e_arg[1]) = MaxTime
    /\ \E k \in 1..NumStates, d \in 1..NumEmissions, i \in 1..NumClasses :
          ManualSum(m_arg).sum_x[1][k][d][i] = Zero
    /\ C10_DirichletModeForm

====
